---- MODULE Spec2Model ----
(***************************************************************************)
(* A model of CrosswordCreator (src/crossword/generate.py): the domain     *)
(* store, node consistency, revise / AC-3 and the backtracking search of   *)
(* solve().  Words are sequences of letters; Python's 0-based indices are  *)
(* kept and converted where a letter is read (Char).                       *)
(***************************************************************************)
EXTENDS Integers, Sequences, FiniteSets, TLC

(* ------------------------------ bounds --------------------------------- *)

\* Largest number of slots of a puzzle.
MaxSlots == 3

\* Largest number of words of a vocabulary.
MaxVocab == 3

\* Largest number of ac3 calls the propagation driver makes.
MaxCalls == 2

\* Largest length of an explicit worklist handed to ac3.
MaxArcs == 1

Letters == {"A", "B"}

\* The words a vocabulary is drawn from: every word of 3 letters, and the
\* words of 2 different letters.
WordPool == [1..3 -> Letters] \cup {w \in [1..2 -> Letters] : w[1] # w[2]}

\* Python's None, as a value comparable with words and with index pairs.
None == <<"None">>

(* ------------------- the puzzle structure (crossword.py) --------------- *)

ACROSS == "across"

DOWN == "down"

\* A slot: (row, column, direction, length).
Variable(i, j, direction, length) == <<i, j, direction, length>>

Row(v) == v[1]

Col(v) == v[2]

Direction(v) == v[3]

Length(v) == v[4]

\* The cells of a slot, in word order.
cells(v) ==
    [n \in 1..Length(v) |->
        IF Direction(v) = ACROSS THEN <<Row(v), Col(v) + (n - 1)>>
                                 ELSE <<Row(v) + (n - 1), Col(v)>>]

CellSet(v) == {cells(v)[n] : n \in 1..Length(v)}

IndexOf(s, c) == CHOOSE n \in 1..Len(s) : s[n] = c

\* The overlap of two slots: None, or the 0-based indices (i, j) of the
\* shared cell in the two words.
Overlap(x, y) ==
    LET shared == CellSet(x) \cap CellSet(y)
    IN  IF shared = {} THEN None
        ELSE LET c == CHOOSE c \in shared : TRUE
             IN  <<IndexOf(cells(x), c) - 1, IndexOf(cells(y), c) - 1>>

\* The grids the puzzles are drawn from: sets of slots of a 3 x 3 grid.
Structures ==
    { {Variable(0, 0, ACROSS, 3)},
      {Variable(0, 0, ACROSS, 3), Variable(0, 0, DOWN, 3)},
      {Variable(0, 0, ACROSS, 3), Variable(2, 0, ACROSS, 3)},
      {Variable(0, 0, ACROSS, 2), Variable(0, 1, DOWN, 3)},
      {Variable(0, 0, ACROSS, 2), Variable(2, 0, ACROSS, 3)},
      {Variable(0, 0, ACROSS, 3), Variable(0, 0, DOWN, 3),
       Variable(2, 0, ACROSS, 3)},
      {Variable(0, 0, ACROSS, 3), Variable(0, 0, DOWN, 3),
       Variable(0, 2, DOWN, 3)},
      {Variable(0, 0, ACROSS, 3), Variable(0, 2, DOWN, 2),
       Variable(2, 0, ACROSS, 2)},
      {Variable(0, 0, ACROSS, 3), Variable(0, 0, DOWN, 3),
       Variable(0, 2, DOWN, 3), Variable(2, 0, ACROSS, 3)} }

Puzzles == {S \in Structures : Cardinality(S) <= MaxSlots}

\* crossword.overlaps, a dict computed once for every pair of distinct
\* slots; @@ makes it an explicit table, not a rule applied at each lookup.
OverlapTable ==
    LET slots == UNION Structures
        pairs == {a \in slots \X slots : a[1] # a[2]}
    IN  [a \in pairs |-> Overlap(a[1], a[2])] @@ <<>>

overlaps(x, y) == OverlapTable[<<x, y>>]

Vocabularies == {W \in SUBSET WordPool : Cardinality(W) <= MaxVocab}

Perms(S) ==
    {p \in [1..Cardinality(S) -> S] :
        \A a, b \in 1..Cardinality(S) : a # b => p[a] # p[b]}

(* ------------------------------- state --------------------------------- *)

VARIABLES
    crossword,  \* [variables, words]: the puzzle, read-only
    order,      \* iteration order of crossword.variables / self.domains
    caller,     \* "solve": solve() runs; "driver": the methods are called
    domains,    \* self.domains
    pc,         \* where the running method is
    nodeIdx,    \* enforce_node_consistency: position of the loop in order
    queue,      \* ac3: the worklist
    call,       \* ac3: the running call, [arcs, before]
    history,    \* the ac3 calls that returned, [arcs, before, after, ret]
    stack,      \* backtrack: the frames, [assignment, var, values, next]
    ret,        \* backtrack: the value being returned to the caller
    result      \* what solve() returned

vars == <<crossword, order, caller, domains, pc, nodeIdx, queue, call,
          history, stack, ret, result>>

variables == crossword.variables

neighbors(var) == {v \in variables \ {var} : overlaps(var, v) # None}

\* The letter word[i], i counted from 0.
Char(word, i) == word[i + 1]

\* word[i] raises IndexError.
IndexError(word, i) == i >= Len(word)

(* ------------------------- __init__ (lines 8-16) ----------------------- *)

\* The argument `arcs` of ac3: None, or a list of arcs.
NoArcs == [given |-> FALSE, list |-> <<>>]

Arcs(list) == [given |-> TRUE, list |-> list]

NoCall == [arcs |-> NoArcs, before |-> <<>>]

NoneResult == [isNone |-> TRUE, val |-> <<>>]

Some(assignment) == [isNone |-> FALSE, val |-> assignment]

\* The state a CrosswordCreator is constructed in: every slot's domain is a
\* copy of the whole vocabulary.
Construct(who) ==
    /\ crossword \in {[variables |-> S, words |-> W] :
                        S \in Puzzles, W \in Vocabularies}
    /\ order \in Perms(crossword.variables)
    /\ caller = who
    /\ domains = [var \in crossword.variables |-> crossword.words]
    /\ pc = "node"
    /\ nodeIdx = 1
    /\ queue = <<>>
    /\ call = NoCall
    /\ history = <<>>
    /\ stack = <<>>
    /\ ret = NoneResult
    /\ result = NoneResult

Init == Construct("solve")

(* ------------------ enforce_node_consistency (lines 96-109) ------------ *)

\* The test of line 108 as `len(word) < var.length`.
NodeConsistentDomainShorter(var) ==
    domains[var] \ {word \in domains[var] : Len(word) < Length(var)}

\* The test of line 108 as `len(word) > var.length`.
NodeConsistentDomainLonger(var) ==
    domains[var] \ {word \in domains[var] : Len(word) > Length(var)}

\* The inner loop: over a copy of the domain, remove each word whose length
\* differs from the slot's.
NodeConsistentDomain(var) ==
    domains[var] \ {word \in domains[var] : Len(word) # Length(var)}

\* One iteration of the outer loop `for var in self.domains`.
EnforceNodeConsistency ==
    /\ pc = "node"
    /\ nodeIdx <= Len(order)
    /\ LET var == order[nodeIdx]
       IN  domains' = [domains EXCEPT ![var] = NodeConsistentDomain(var)]
    /\ nodeIdx' = nodeIdx + 1
    /\ pc' = IF nodeIdx = Len(order) THEN "ready" ELSE "node"
    /\ UNCHANGED <<crossword, order, caller, queue, call, history, stack,
                   ret, result>>

(* ----------------------------- revise (112-140) ------------------------ *)

\* Line 134 reads x_word[x_index] and y_word[y_index] for every pair of
\* words: it raises IndexError when a word is too short for its index.
ReviseRaises(x, y) ==
    /\ overlaps(x, y) # None
    /\ domains[x] # {}
    /\ domains[y] # {}
    /\ \/ \E x_word \in domains[x] : IndexError(x_word, overlaps(x, y)[1])
       \/ \E y_word \in domains[y] : IndexError(y_word, overlaps(x, y)[2])

\* Line 134 without `x_word != y_word`: a word supports itself.
consistent_wordsSame(x_word, x, y) ==
    LET x_index == overlaps(x, y)[1]
        y_index == overlaps(x, y)[2]
    IN  {y_word \in domains[y] :
            Char(x_word, x_index) = Char(y_word, y_index)}

\* Line 134 with the two indices exchanged.
consistent_wordsSwapped(x_word, x, y) ==
    LET x_index == overlaps(x, y)[1]
        y_index == overlaps(x, y)[2]
    IN  {y_word \in domains[y] :
            Char(x_word, y_index) = Char(y_word, x_index) /\ x_word # y_word}

\* The words of domains[y] consistent with x_word (line 134).
consistent_words(x_word, x, y) ==
    LET x_index == overlaps(x, y)[1]
        y_index == overlaps(x, y)[2]
    IN  {y_word \in domains[y] :
            Char(x_word, x_index) = Char(y_word, y_index) /\ x_word # y_word}

\* revise(x, y): the new domain of x and whether a word was removed.
revise(x, y) ==
    IF overlaps(x, y) = None
    THEN [revised |-> FALSE, domain |-> domains[x]]
    ELSE LET removed == {x_word \in domains[x] :
                            Cardinality(consistent_words(x_word, x, y)) = 0}
         IN  [revised |-> removed # {}, domain |-> domains[x] \ removed]

(* ------------------------------ ac3 (143-177) -------------------------- *)

\* Lines 157-162 with each pair of slots taken once, not in both directions.
AllArcsOneWay ==
    LET n == Len(order)
        pairs == [m \in 1..(n * n) |->
                    <<order[((m - 1) \div n) + 1], order[((m - 1) % n) + 1]>>]
        Keep(a) ==
            /\ \E i, j \in 1..n : i < j /\ order[i] = a[1] /\ order[j] = a[2]
            /\ overlaps(a[1], a[2]) # None
    IN  SelectSeq(pairs, Keep)

\* Lines 157-162: every ordered pair of distinct overlapping slots, in the
\* order of the two nested loops over self.domains.
AllArcs ==
    LET n == Len(order)
        pairs == [m \in 1..(n * n) |->
                    <<order[((m - 1) \div n) + 1], order[((m - 1) % n) + 1]>>]
        Keep(a) == ~(a[1] = a[2] \/ overlaps(a[1], a[2]) = None)
    IN  SelectSeq(pairs, Keep)

\* Lines 153-162: `if arcs:` takes the caller's list only when it is
\* neither None nor empty.
InitialQueue(arcs) ==
    IF arcs.given /\ Len(arcs.list) > 0 THEN arcs.list ELSE AllArcs

\* The call of ac3(arcs), up to the loop of line 165.
Ac3Call(arcs) ==
    /\ queue' = InitialQueue(arcs)
    /\ call' = [arcs |-> arcs, before |-> domains]
    /\ pc' = "ac3"

Ac3Return(value, after) ==
    /\ history' = Append(history, [arcs |-> call.arcs, before |-> call.before,
                                   after |-> after, ret |-> value])
    /\ pc' = "returned"

\* Lines 173-174 left out: nothing is put back on the worklist.
RequeuedNone(x, y) == {<<>>}

\* Lines 173-174: the arcs (z, x) of the neighbors of x other than y, in
\* the arbitrary iteration order of the set.
Requeued(x, y) ==
    LET zs == neighbors(x) \ {y}
    IN  {[n \in 1..Cardinality(zs) |-> <<p[n], x>>] : p \in Perms(zs)}

\* The loop of line 165 without the pop of line 166.
Ac3StepNoPop ==
    /\ pc = "ac3"
    /\ Len(queue) > 0
    /\ LET x == Head(queue)[1]
           y == Head(queue)[2]
       IN  IF ReviseRaises(x, y)
           THEN /\ pc' = "raised"
                /\ UNCHANGED <<domains, queue, history>>
           ELSE LET r == revise(x, y)
                    revised == [domains EXCEPT ![x] = r.domain]
                IN  /\ domains' = revised
                    /\ IF r.revised /\ r.domain = {}
                       THEN /\ Ac3Return(FALSE, revised)
                            /\ queue' = queue
                       ELSE /\ \E more \in (IF r.revised THEN Requeued(x, y)
                                                        ELSE {<<>>}) :
                                  queue' = queue \o more
                            /\ UNCHANGED <<pc, history>>
    /\ UNCHANGED <<crossword, order, caller, nodeIdx, call, stack, ret,
                   result>>

\* One iteration of the loop of line 165.
Ac3Step ==
    /\ pc = "ac3"
    /\ Len(queue) > 0
    /\ LET x == Head(queue)[1]
           y == Head(queue)[2]
       IN  IF ReviseRaises(x, y)
           THEN /\ pc' = "raised"
                /\ UNCHANGED <<domains, queue, history>>
           ELSE LET r == revise(x, y)
                    revised == [domains EXCEPT ![x] = r.domain]
                IN  /\ domains' = revised
                    /\ IF r.revised /\ r.domain = {}
                       THEN /\ Ac3Return(FALSE, revised)
                            /\ queue' = Tail(queue)
                       ELSE /\ \E more \in (IF r.revised THEN Requeued(x, y)
                                                        ELSE {<<>>}) :
                                  queue' = Tail(queue) \o more
                            /\ UNCHANGED <<pc, history>>
    /\ UNCHANGED <<crossword, order, caller, nodeIdx, call, stack, ret,
                   result>>

\* Line 177: the worklist is empty.
Ac3Done ==
    /\ pc = "ac3"
    /\ Len(queue) = 0
    /\ Ac3Return(TRUE, domains)
    /\ UNCHANGED <<crossword, order, caller, domains, nodeIdx, queue, call,
                   stack, ret, result>>

(* ------------------------- callers of ac3 ------------------------------ *)

\* solve(), line 93: self.ac3().
SolveAc3 ==
    /\ caller = "solve"
    /\ pc = "ready"
    /\ Ac3Call(NoArcs)
    /\ UNCHANGED <<crossword, order, caller, domains, nodeIdx, history,
                   stack, ret, result>>

\* The pairs of distinct slots a caller can name in an explicit worklist.
SlotPairs == {a \in variables \X variables : a[1] # a[2]}

ArcLists == UNION {[1..n -> SlotPairs] : n \in 0..MaxArcs}

\* A caller other than solve() calls ac3, with or without a worklist, on
\* the node-consistent store or on the store an earlier call left.
DriverAc3 ==
    /\ caller = "driver"
    /\ pc \in {"ready", "returned"}
    /\ Len(history) < MaxCalls
    /\ \E arcs \in {NoArcs} \cup {Arcs(list) : list \in ArcLists} :
          Ac3Call(arcs)
    /\ UNCHANGED <<crossword, order, caller, domains, nodeIdx, history,
                   stack, ret, result>>

(* ---------------------- assignment_complete (180-192) ----------------- *)

\* `not word`: the word is None or the empty string.
Falsy(word) == word = None \/ word = <<>>

assignment_complete(assignment) ==
    \A var \in variables :
        ~(var \notin DOMAIN assignment \/ assignment[var] = None)

(* --------------------------- consistent (195-228) ---------------------- *)

\* Line 223 reads assignment[v2][j]: IndexError when the neighbor's word is
\* too short for its overlap index.
ConsistentRaises(assignment) ==
    \E v1 \in DOMAIN assignment :
        \E v2 \in neighbors(v1) \cap DOMAIN assignment :
            IndexError(assignment[v2], overlaps(v1, v2)[2])

\* list(assignment.values()).count(word)
CountValue(assignment, word) ==
    Cardinality({v \in DOMAIN assignment : assignment[v] = word})

\* consistent without the duplicate test of lines 210-211.
consistentNoCount(assignment) ==
    \A v1 \in DOMAIN assignment :
        LET word == assignment[v1]
        IN  \/ Falsy(word)
            \/ /\ ~(Len(assignment[v1]) # Length(v1))
               /\ \A v2 \in neighbors(v1) :
                    v2 \in DOMAIN assignment =>
                        ~(Char(word, overlaps(v1, v2)[1])
                            # Char(assignment[v2], overlaps(v1, v2)[2]))

\* consistent without the overlap test of lines 214-226.
consistentNoOverlap(assignment) ==
    \A v1 \in DOMAIN assignment :
        LET word == assignment[v1]
        IN  \/ Falsy(word)
            \/ /\ ~(CountValue(assignment, word) > 1)
               /\ ~(Len(assignment[v1]) # Length(v1))

consistent(assignment) ==
    \A v1 \in DOMAIN assignment :
        LET word == assignment[v1]
        IN  \/ Falsy(word)
            \/ /\ ~(CountValue(assignment, word) > 1)
               /\ ~(Len(assignment[v1]) # Length(v1))
               /\ \A v2 \in neighbors(v1) :
                    v2 \in DOMAIN assignment =>
                        ~(Char(word, overlaps(v1, v2)[1])
                            # Char(assignment[v2], overlaps(v1, v2)[2]))

(* ---------------------- constrained_values (244-261) ------------------- *)

\* Line 259 reads word[i] and word2[j].
ConstrainedRaises(word, var, assignment) ==
    \E neighbor \in neighbors(var) \ DOMAIN assignment :
        /\ domains[neighbor] # {}
        /\ \/ IndexError(word, overlaps(var, neighbor)[1])
           \/ \E word2 \in domains[neighbor] :
                IndexError(word2, overlaps(var, neighbor)[2])

\* Line 259 with `==` for `!=`: the words the word agrees with.
RuledOutAgree(word, var, neighbor) ==
    {word2 \in domains[neighbor] :
        \/ Char(word, overlaps(var, neighbor)[1])
              = Char(word2, overlaps(var, neighbor)[2])
        \/ word = word2}

\* Line 259: the words of one neighbor's domain the word rules out.
RuledOut(word, var, neighbor) ==
    {word2 \in domains[neighbor] :
        \/ Char(word, overlaps(var, neighbor)[1])
              # Char(word2, overlaps(var, neighbor)[2])
        \/ word = word2}

RECURSIVE SumRuledOut(_, _, _)
SumRuledOut(word, var, todo) ==
    IF todo = {} THEN 0
    ELSE LET neighbor == CHOOSE n \in todo : TRUE
         IN  Cardinality(RuledOut(word, var, neighbor))
                + SumRuledOut(word, var, todo \ {neighbor})

constrained_values(word, var, assignment) ==
    SumRuledOut(word, var, neighbors(var) \ DOMAIN assignment)

(* ---------------------- order_domain_values (231-241) ------------------ *)

\* sorted() of a set: every list of the domain's words in non-decreasing
\* order of the key; sets iterate in an arbitrary order, so words with
\* equal keys come in any order.
order_domain_values(var, assignment) ==
    LET key == [word \in domains[var] |->
                    constrained_values(word, var, assignment)]
    IN  {p \in Perms(domains[var]) :
            \A n \in 1..(Len(p) - 1) : key[p[n]] <= key[p[n + 1]]}

(* ------------------- select_unassigned_variable (263-279) -------------- *)

\* The key of line 275 with the degree first.
SortKeyDegreeFirst(var) ==
    <<-Cardinality(neighbors(var)), Cardinality(domains[var])>>

\* The key of line 275 without the minus sign.
SortKeyLeastDegree(var) ==
    <<Cardinality(domains[var]), Cardinality(neighbors(var))>>

\* The key of line 275: (number of words in the domain, -number of neighbors).
SortKey(var) == <<Cardinality(domains[var]), -Cardinality(neighbors(var))>>

\* Python's order of tuples.
TupleLess(a, b) == a[1] < b[1] \/ (a[1] = b[1] /\ a[2] < b[2])

\* The place of a slot in the iteration order of crossword.variables.
Position(var) == CHOOSE n \in 1..Len(order) : order[n] = var

\* sorted() is stable: a slot comes before the slots with a greater key, and
\* before the slots with an equal key that come later in the iteration.
SortsBefore(u, v) ==
    \/ TupleLess(SortKey(u), SortKey(v))
    \/ SortKey(u) = SortKey(v) /\ Position(u) < Position(v)

\* Line 275: crossword.variables sorted by the key; SortsBefore is a strict
\* total order of the slots, so exactly one arrangement is sorted.
sorted_variables ==
    CHOOSE p \in Perms(variables) :
        \A m, n \in 1..Len(p) : m < n => SortsBefore(p[m], p[n])

\* Lines 277-279 without the test of line 278: the first slot of the list.
FirstOfSorted(sorted, assignment) ==
    IF Len(sorted) = 0 THEN None ELSE sorted[1]

\* Lines 277-279: the loop over the sorted list returns the first slot that
\* is not assigned; None when the loop ends without a return.
FirstUnassigned(sorted, assignment) ==
    IF \A n \in 1..Len(sorted) :
            /\ sorted[n] \in DOMAIN assignment
            /\ ~Falsy(assignment[sorted[n]])
    THEN None
    ELSE sorted[CHOOSE n \in 1..Len(sorted) :
                    /\ \/ sorted[n] \notin DOMAIN assignment
                       \/ Falsy(assignment[sorted[n]])
                    /\ \A m \in 1..(n - 1) :
                            /\ sorted[m] \in DOMAIN assignment
                            /\ ~Falsy(assignment[sorted[m]])]

\* Lines 263-279: the list is sorted once, then searched.
select_unassigned_variable(assignment) ==
    CHOOSE var \in {FirstUnassigned(sorted, assignment) :
                        sorted \in {sorted_variables}} : TRUE

(* ---------------------------- backtrack (282-317) ---------------------- *)

\* A call of backtrack: its argument, the slot it selected, the ordered
\* words of line 303 and the position of its loop in them.
Frame(assignment) ==
    [assignment |-> assignment, var |-> None, values |-> <<>>, next |-> 1]

Top == stack[Len(stack)]

\* new_assignment = assignment.copy(); new_assignment[var] = word
Assign(assignment, var, word) ==
    [v \in DOMAIN assignment \cup {var} |->
        IF v = var THEN word ELSE assignment[v]]

\* `if result:`: neither None nor an empty dict.
Truthy(value) == ~value.isNone /\ DOMAIN value.val # {}

\* A return of backtrack: to the calling frame, or to solve().
Return(value) ==
    /\ stack' = SubSeq(stack, 1, Len(stack) - 1)
    /\ IF Len(stack) = 1
       THEN /\ result' = value
            /\ pc' = "done"
            /\ UNCHANGED ret
       ELSE /\ ret' = value
            /\ pc' = "return"
            /\ UNCHANGED result

\* solve(), line 94: self.backtrack(dict()).
SolveBacktrack ==
    /\ caller = "solve"
    /\ pc = "returned"
    /\ stack' = <<Frame(<<>>)>>
    /\ pc' = "call"
    /\ UNCHANGED <<crossword, order, caller, domains, nodeIdx, queue, call,
                   history, ret, result>>

\* Lines 292-303: the completeness test, the choice of the slot and the
\* ordering of its words.
BacktrackCall ==
    /\ pc = "call"
    /\ \E assignment \in {Top.assignment} :
          IF assignment_complete(assignment)
          THEN Return(Some(assignment))
          ELSE \E var \in {select_unassigned_variable(assignment)} :
                 IF \/ var = None
                    \/ \E word \in domains[var] :
                         ConstrainedRaises(word, var, assignment)
                 THEN /\ pc' = "raised"
                      /\ UNCHANGED <<stack, ret, result>>
                 ELSE /\ \E values \in order_domain_values(var, assignment) :
                           stack' = [stack EXCEPT ![Len(stack)] =
                                        [assignment |-> assignment,
                                         var |-> var, values |-> values,
                                         next |-> 1]]
                      /\ pc' = "loop"
                      /\ UNCHANGED <<ret, result>>
    /\ UNCHANGED <<crossword, order, caller, domains, nodeIdx, queue, call,
                   history>>

\* Lines 303-311 with the domain of the slot narrowed to the word tried.
BacktrackTryNarrow ==
    /\ pc = "loop"
    /\ Top.next <= Len(Top.values)
    /\ LET word == Top.values[Top.next]
           new_assignment == Assign(Top.assignment, Top.var, word)
           rest == [stack EXCEPT ![Len(stack)].next = Top.next + 1]
       IN  IF ConsistentRaises(new_assignment)
           THEN /\ pc' = "raised"
                /\ UNCHANGED <<stack, domains>>
           ELSE IF consistent(new_assignment)
                THEN /\ stack' = Append(rest, Frame(new_assignment))
                     /\ domains' = [domains EXCEPT ![Top.var] = {word}]
                     /\ pc' = "call"
                ELSE /\ stack' = rest
                     /\ pc' = "loop"
                     /\ UNCHANGED domains
    /\ UNCHANGED <<crossword, order, caller, nodeIdx, queue, call, history,
                   ret, result>>

\* Lines 303-311 without the copy of line 305: the word is bound in the
\* caller's own assignment.
BacktrackTryAlias ==
    /\ pc = "loop"
    /\ Top.next <= Len(Top.values)
    /\ LET word == Top.values[Top.next]
           new_assignment == Assign(Top.assignment, Top.var, word)
           rest == [stack EXCEPT ![Len(stack)].next = Top.next + 1,
                                 ![Len(stack)].assignment = new_assignment]
       IN  IF ConsistentRaises(new_assignment)
           THEN /\ pc' = "raised"
                /\ UNCHANGED stack
           ELSE IF consistent(new_assignment)
                THEN /\ stack' = Append(rest, Frame(new_assignment))
                     /\ pc' = "call"
                ELSE /\ stack' = rest
                     /\ pc' = "loop"
    /\ UNCHANGED <<crossword, order, caller, domains, nodeIdx, queue, call,
                   history, ret, result>>

\* Lines 303-311: the next word is bound on a copy of the assignment, and
\* backtrack is called on the copy if it is consistent.
BacktrackTry ==
    /\ pc = "loop"
    /\ Top.next <= Len(Top.values)
    /\ LET word == Top.values[Top.next]
           new_assignment == Assign(Top.assignment, Top.var, word)
           rest == [stack EXCEPT ![Len(stack)].next = Top.next + 1]
       IN  IF ConsistentRaises(new_assignment)
           THEN /\ pc' = "raised"
                /\ UNCHANGED stack
           ELSE IF consistent(new_assignment)
                THEN /\ stack' = Append(rest, Frame(new_assignment))
                     /\ pc' = "call"
                ELSE /\ stack' = rest
                     /\ pc' = "loop"
    /\ UNCHANGED <<crossword, order, caller, domains, nodeIdx, queue, call,
                   history, ret, result>>

\* Line 317: every word was tried.
BacktrackFail ==
    /\ pc = "loop"
    /\ Top.next > Len(Top.values)
    /\ Return(NoneResult)
    /\ UNCHANGED <<crossword, order, caller, domains, nodeIdx, queue, call,
                   history>>

\* Lines 311-313 as `return self.backtrack(new_assignment)`: a failed call
\* ends the loop.
BacktrackResumeReturn ==
    /\ pc = "return"
    /\ Return(ret)
    /\ UNCHANGED <<crossword, order, caller, domains, nodeIdx, queue, call,
                   history>>

\* Lines 311-313: the recursive call returned.
BacktrackResume ==
    /\ pc = "return"
    /\ IF Truthy(ret)
       THEN Return(ret)
       ELSE /\ pc' = "loop"
            /\ UNCHANGED <<stack, ret, result>>
    /\ UNCHANGED <<crossword, order, caller, domains, nodeIdx, queue, call,
                   history>>

(* --------------------------- specifications ---------------------------- *)

\* solve() (lines 88-94) on a newly constructed CrosswordCreator.
Next ==
    \/ EnforceNodeConsistency
    \/ SolveAc3
    \/ Ac3Step
    \/ Ac3Done
    \/ SolveBacktrack
    \/ BacktrackCall
    \/ BacktrackTry
    \/ BacktrackFail
    \/ BacktrackResume

Spec == Init /\ [][Next]_vars

\* solve() is one thread of control: a step that can be taken is taken.
FairSpec == Spec /\ WF_vars(Next)

\* The propagation methods called directly: enforce_node_consistency(),
\* then ac3 with or without a worklist, at most MaxCalls times.
InitProp == Construct("driver")

NextProp == EnforceNodeConsistency \/ DriverAc3 \/ Ac3Step \/ Ac3Done

SpecProp == InitProp /\ [][NextProp]_vars

\* A call of ac3 is one thread of control: its loop goes on until it
\* returns.  The caller is free to make no further call.
FairSpecProp == SpecProp /\ WF_vars(Ac3Step \/ Ac3Done)

\* A caller other than backtrack calls order_domain_values(var, assignment)
\* on the node-consistent store: var is any slot, and assignment binds any
\* of the other slots to words of their domains.
DriverOrder ==
    /\ caller = "driver"
    /\ pc = "ready"
    /\ \E var \in variables :
          \E bound \in SUBSET {v \in variables \ {var} : domains[v] # {}} :
             \E assignment \in [bound -> crossword.words] :
                /\ \A v \in bound : assignment[v] \in domains[v]
                /\ IF \E word \in domains[var] :
                          ConstrainedRaises(word, var, assignment)
                   THEN /\ pc' = "raised"
                        /\ UNCHANGED stack
                   ELSE /\ \E values \in order_domain_values(var, assignment) :
                             stack' = <<[assignment |-> assignment,
                                         var |-> var, values |-> values,
                                         next |-> 1]>>
                        /\ pc' = "ordered"
    /\ UNCHANGED <<crossword, order, caller, domains, nodeIdx, queue, call,
                   history, ret, result>>

NextOrder == EnforceNodeConsistency \/ DriverOrder

SpecOrder == InitProp /\ [][NextOrder]_vars

(* ------------------------------ properties ----------------------------- *)

\* A complete assignment over the vocabulary that is valid: the words are
\* pairwise distinct, each has its slot's length, and overlapping slots
\* agree on the shared cell.
Valid(a) ==
    /\ DOMAIN a = variables
    /\ \A u, v \in variables : u # v => a[u] # a[v]
    /\ \A v \in variables : Len(a[v]) = Length(v)
    /\ \A u, v \in variables :
          (u # v /\ overlaps(u, v) # None) =>
              a[u][overlaps(u, v)[1] + 1] = a[v][overlaps(u, v)[2] + 1]

Solutions == {a \in [variables -> crossword.words] : Valid(a)}

Returned == pc = "done"

\* C1: an assignment returned by solve() binds every slot, to pairwise
\* distinct words of the slots' lengths that agree at every overlap.
C1_ReturnedAssignmentValid ==
    (Returned /\ ~result.isNone) => Valid(result.val)

\* solve() returned an assignment of a puzzle with overlapping slots and
\* with slots that do not overlap.
C1_Witness ==
    /\ Returned
    /\ ~result.isNone
    /\ \E u, v \in variables : u # v /\ overlaps(u, v) # None
    /\ \E u, v \in variables : u # v /\ overlaps(u, v) = None

\* C2: when a valid complete assignment over the vocabulary exists, solve()
\* does not return None (so None is returned only when none exists).
C2_SearchExhaustive ==
    (Returned /\ Solutions # {}) => ~result.isNone

\* In a puzzle that has a valid assignment a recursive call failed and the
\* caller goes on with its next word.
C2_Witness ==
    /\ pc = "loop"
    /\ ret.isNone
    /\ Top.next > 1
    /\ Solutions # {}
    /\ Len(stack) >= 2

\* C6: after enforce_node_consistency() every slot's domain is exactly the
\* set of the vocabulary's words of the slot's length.
C6_NodeConsistencyExact ==
    pc = "ready" =>
        \A var \in variables :
            domains[var] = {word \in crossword.words : Len(word) = Length(var)}

\* Node consistency removed a word from one slot's domain and kept one,
\* in a puzzle with slots of two lengths.
C6_Witness ==
    /\ pc = "ready"
    /\ \E u, v \in variables : Length(u) # Length(v)
    /\ \E var \in variables :
          domains[var] # {} /\ domains[var] # crossword.words

SomeDomainEmpty == \E var \in variables : domains[var] = {}

Searching == pc \in {"call", "loop", "return"}

\* C3, as claimed: once propagation has left a domain empty, backtrack is
\* never called.
C3_NoSearchAfterEmptyDomain ==
    SomeDomainEmpty => ~Searching

\* C3, amended: when propagation has left a domain empty, solve() returns
\* None; backtrack is called once, on the empty assignment, selects a slot
\* whose domain is empty, binds no word and makes no recursive call.
C3_EmptyDomainSearchIsTrivial ==
    SomeDomainEmpty =>
        /\ Len(stack) <= 1
        /\ pc # "return"
        /\ Searching => Top.assignment = <<>>
        /\ pc = "loop" => (domains[Top.var] = {} /\ Top.values = <<>>)
        /\ Returned => result.isNone

\* solve() returned None after ac3 had returned False with a domain empty.
C3_Witness ==
    /\ Returned
    /\ result.isNone
    /\ SomeDomainEmpty
    /\ \E var \in variables : domains[var] # {}
    /\ Len(history) = 1
    /\ ~history[1].ret

\* Every word of every slot has a support in every neighbor's domain: a
\* different word with the same letter at the overlap.
ArcConsistent(store) ==
    \A x \in variables :
        \A y \in variables :
            (x # y /\ overlaps(x, y) # None) =>
                \A wx \in store[x] :
                    \E wy \in store[y] :
                        /\ wx[overlaps(x, y)[1] + 1] = wy[overlaps(x, y)[2] + 1]
                        /\ wx # wy

Calls == 1..Len(history)

\* C4: when ac3() without a worklist returns True on a node-consistent
\* store, the store is arc consistent.
C4_Ac3ArcConsistent ==
    \A n \in Calls :
        (~history[n].arcs.given /\ history[n].ret) =>
            ArcConsistent(history[n].after)

\* ac3() returned True after it had removed words, and left words in the
\* domains of two overlapping slots.
C4_Witness ==
    \E n \in Calls :
        /\ ~history[n].arcs.given
        /\ history[n].ret
        /\ history[n].after # history[n].before
        /\ \E x, y \in variables :
              /\ x # y
              /\ overlaps(x, y) # None
              /\ history[n].after[x] # {}

\* C5, as claimed: ac3 returns True exactly when no domain is empty at the
\* moment it returns.
C5_Ac3TrueIffNoEmptyDomain ==
    \A n \in Calls :
        history[n].ret <=> (\A var \in variables : history[n].after[var] # {})

\* C7: after ac3() has returned True, another ac3() returns True and
\* leaves every domain as it was.
C7_Ac3Idempotent ==
    \A n \in Calls :
        (/\ n > 1
         /\ ~history[n - 1].arcs.given
         /\ history[n - 1].ret
         /\ ~history[n].arcs.given) =>
            /\ history[n].ret
            /\ history[n].after = history[n].before
            /\ history[n].before = history[n - 1].after

\* ac3() ran twice; the first run removed words and returned True.
C7_Witness ==
    /\ Len(history) >= 2
    /\ ~history[1].arcs.given
    /\ history[1].ret
    /\ history[1].after # history[1].before
    /\ ~history[2].arcs.given
    /\ \E var \in variables : history[1].after[var] # {}

\* The words of the vocabulary a slot can take.
Usable(var) == {word \in crossword.words : Len(word) = Length(var)}

\* C8: for a puzzle without a valid complete assignment solve() terminates
\* and returns None; it never ends in an exception.
C8_UnsatisfiableReturnsNone ==
    <>(Solutions # {} \/ (Returned /\ result.isNone))

\* solve() returned None after the search had tried words: no domain is
\* empty, and there are fewer usable words than slots of their length.
C8_Witness ==
    /\ Returned
    /\ result.isNone
    /\ Solutions = {}
    /\ ~SomeDomainEmpty
    /\ \E var \in variables :
          Cardinality(Usable(var))
              < Cardinality({v \in variables : Length(v) = Length(var)})

\* The calls of backtrack that have selected a slot.
Selected == {n \in 1..Len(stack) : stack[n].var # None}

Unassigned(assignment) == variables \ DOMAIN assignment

Degree(var) ==
    Cardinality({v \in variables : v # var /\ overlaps(var, v) # None})

\* C9: the slot select_unassigned_variable returns is not assigned, has a
\* domain of minimal size among the unassigned slots, and has the most
\* neighbors among the unassigned slots with a domain of that size.
C9_SelectMrvThenDegree ==
    \A n \in Selected :
        LET var == stack[n].var
            free == Unassigned(stack[n].assignment)
        IN  /\ var \in free
            /\ \A u \in free :
                  Cardinality(domains[var]) <= Cardinality(domains[u])
            /\ \A u \in free :
                  Cardinality(domains[u]) = Cardinality(domains[var]) =>
                      Degree(u) <= Degree(var)

\* A slot was selected before an unassigned slot with a domain of the same
\* size and fewer neighbors, and before one with a larger domain.
C9_Witness ==
    \E n \in Selected :
        LET var == stack[n].var
            free == Unassigned(stack[n].assignment)
        IN  /\ \E u \in free :
                  /\ Cardinality(domains[u]) = Cardinality(domains[var])
                  /\ Degree(u) < Degree(var)
            /\ \E u \in free :
                  Cardinality(domains[u]) > Cardinality(domains[var])

\* The number of words a word of var rules out in the domains of var's
\* unassigned neighbors: those that differ at the overlap or equal the word.
RulesOut(word, var, assignment) ==
    Cardinality(
        {pair \in UNION {{<<v, w2>> : w2 \in domains[v]} :
                            v \in Unassigned(assignment)} :
            /\ pair[1] # var
            /\ overlaps(var, pair[1]) # None
            /\ \/ word[overlaps(var, pair[1])[1] + 1]
                     # pair[2][overlaps(var, pair[1])[2] + 1]
               \/ pair[2] = word})

\* C10: order_domain_values returns every word of the slot's domain exactly
\* once, in non-decreasing order of the number of words it rules out.
C10_OrderLeastConstraining ==
    \A n \in Selected :
        LET var == stack[n].var
            values == stack[n].values
            assignment == stack[n].assignment
        IN  /\ Len(values) = Cardinality(domains[var])
            /\ {values[m] : m \in 1..Len(values)} = domains[var]
            /\ \A m \in 1..(Len(values) - 1) :
                  RulesOut(values[m], var, assignment)
                      <= RulesOut(values[m + 1], var, assignment)

\* The ordered words of a slot with an assigned and an unassigned neighbor
\* rule out different numbers of words.
C10_Witness ==
    \E n \in Selected :
        LET var == stack[n].var
            values == stack[n].values
            assignment == stack[n].assignment
        IN  /\ \E v \in DOMAIN assignment : overlaps(var, v) # None
            /\ \E v \in Unassigned(assignment) :
                  v # var /\ overlaps(var, v) # None
            /\ Len(values) >= 2
            /\ RulesOut(values[1], var, assignment)
                  < RulesOut(values[Len(values)], var, assignment)

\* The words of x that have a support in the domain of y: a different word
\* with the same letter at the overlap.
Supported(x, y) ==
    {wx \in domains[x] :
        \E wy \in domains[y] :
            /\ wx[overlaps(x, y)[1] + 1] = wy[overlaps(x, y)[2] + 1]
            /\ wx # wy}

\* C11: revise(x, y) leaves in the domain of x exactly the words that have a
\* support in the domain of y, returns True exactly when it removed a word,
\* changes no other domain, and changes nothing and returns False when the
\* slots do not overlap.
C11_ReviseExact ==
    [][(pc = "ac3" /\ Len(queue) > 0 /\ pc' # "raised") =>
          LET x == Head(queue)[1]
              y == Head(queue)[2]
              kept == IF overlaps(x, y) = None THEN domains[x]
                                               ELSE Supported(x, y)
          IN  /\ revise(x, y).domain = kept
              /\ revise(x, y).revised <=> kept # domains[x]
              /\ domains' = [domains EXCEPT ![x] = kept]
              /\ overlaps(x, y) = None =>
                    (~revise(x, y).revised /\ domains' = domains)]_vars

\* One call of ac3 revised an arc of slots that do not overlap and
\* returned, and the revisions of another call removed some words of a
\* slot and kept others.
C11_Witness ==
    /\ \E n \in Calls :
          /\ history[n].arcs.given
          /\ Len(history[n].arcs.list) = 1
          /\ overlaps(history[n].arcs.list[1][1],
                      history[n].arcs.list[1][2]) = None
    /\ \E n \in Calls :
          \E var \in variables :
             /\ history[n].after[var] # {}
             /\ history[n].after[var] # history[n].before[var]

\* C12, as claimed: ac3 starts from every arc of the puzzle only when it is
\* called without a worklist; a list the caller passes is the initial
\* worklist.
C12_ExplicitWorklistIsInitial ==
    [][(pc # "ac3" /\ pc' = "ac3") =>
          queue' = IF call'.arcs.given THEN call'.arcs.list ELSE AllArcs]_vars

\* C13: from the first call of backtrack on, no step of the search changes
\* a domain.
C13_SearchKeepsDomains ==
    [][(Searching \/ pc' \in {"call", "loop", "return"}) =>
          domains' = domains]_vars

\* The search is two calls deep and has gone past a word, on a store from
\* which propagation had removed words.
C13_Witness ==
    /\ Searching
    /\ Len(stack) >= 2
    /\ stack[1].next > 1
    /\ \E var \in variables :
          domains[var] # {} /\ domains[var] # crossword.words

\* C14: a running call of backtrack keeps the assignment it received for as
\* long as it runs, and the assignment a recursive call receives is the
\* caller's with the one new binding of the selected slot.
C14_AssignmentNotMutated ==
    [][/\ \A n \in 1..Len(stack) :
             n <= Len(stack') => stack'[n].assignment = stack[n].assignment
       /\ (Len(stack) >= 1 /\ Len(stack') = Len(stack) + 1) =>
             LET old == Top.assignment
                 new == stack'[Len(stack')].assignment
             IN  /\ DOMAIN new = DOMAIN old \cup {Top.var}
                 /\ \A v \in DOMAIN old \ {Top.var} : new[v] = old[v]]_vars

\* A recursive call made from a call that had itself been called recursively
\* has failed, and the caller has another word to try.
C14_Witness ==
    /\ pc = "loop"
    /\ Len(stack) >= 2
    /\ Top.next > 1
    /\ Top.next <= Len(Top.values)
    /\ consistent(Assign(Top.assignment, Top.var, Top.values[Top.next - 1]))

\* The words bound are pairwise distinct, each has its slot's length, and
\* the words of overlapping bound slots agree on the shared cell.
PartialConsistent(a) ==
    /\ \A u, v \in DOMAIN a : u # v => a[u] # a[v]
    /\ \A v \in DOMAIN a : Len(a[v]) = Length(v)
    /\ \A u, v \in DOMAIN a :
          (u # v /\ overlaps(u, v) # None) =>
              a[u][overlaps(u, v)[1] + 1] = a[v][overlaps(u, v)[2] + 1]

\* C15: every assignment backtrack is called on, by solve() or recursively,
\* is consistent.
C15_SearchOnConsistentOnly ==
    \A n \in 1..Len(stack) : PartialConsistent(stack[n].assignment)

\* A call of backtrack skipped a word that made its assignment inconsistent
\* and then called backtrack with a later word.
C15_Witness ==
    \E n \in Selected :
        /\ n < Len(stack)
        /\ \E m \in 1..(stack[n].next - 2) :
              ~PartialConsistent(Assign(stack[n].assignment, stack[n].var,
                                        stack[n].values[m]))

\* C16: every call of ac3 returns, True or False.
C16_Ac3Terminates ==
    (pc = "ac3") ~> (pc = "returned")

\* A call of ac3 returned after a revision had put arcs back on the
\* worklist: it revised more arcs than its initial worklist held.
C16_Witness ==
    /\ pc = "returned"
    /\ \E n \in Calls :
          /\ history[n].arcs.given
          /\ Len(history[n].arcs.list) = 1
          /\ \E var \in variables :
                /\ var # history[n].arcs.list[1][1]
                /\ history[n].after[var] # history[n].before[var]

\* C17: the recursion is never deeper than the number of slots plus the
\* call of solve(): the n-th call runs on an assignment of n - 1 slots, and
\* the slot it selects is not one of them.
C17_DepthBoundedBySlots ==
    /\ Len(stack) <= Cardinality(variables) + 1
    /\ \A n \in 1..Len(stack) :
          /\ Cardinality(DOMAIN stack[n].assignment) = n - 1
          /\ stack[n].var # None =>
                stack[n].var \notin DOMAIN stack[n].assignment

\* The recursion is at its deepest in a puzzle of three slots: the last
\* call runs on a complete assignment.
C17_Witness ==
    /\ Cardinality(variables) = 3
    /\ Len(stack) = Cardinality(variables) + 1
    /\ DOMAIN Top.assignment = variables

\* C18: the words of every valid complete assignment stay in the domains
\* through node consistency and every step of ac3, and ac3 returns False
\* only for a puzzle without a valid complete assignment.
C18_PropagationKeepsSolutions ==
    /\ \A a \in Solutions : \A s \in variables : a[s] \in domains[s]
    /\ \A n \in Calls : ~history[n].ret => Solutions = {}

\* ac3 removed words from the domains of a puzzle that has a valid complete
\* assignment with overlapping slots, and returned.
C18_Witness ==
    /\ pc = "returned"
    /\ Solutions # {}
    /\ \E u, v \in variables : u # v /\ overlaps(u, v) # None
    /\ \E n \in Calls : history[n].after # history[n].before

====
